---- MODULE Spec2Model ----
(***************************************************************************)
(* Model of server.js: the POST /detectFaces handler (bounding-box         *)
(* normalisation of the provider's face annotations), the                  *)
(* POST /uploadPdfDirect handler and the three GET handlers that relay     *)
(* blobs of the storage bucket.                                            *)
(*                                                                         *)
(* Three specifications:                                                   *)
(*   SpecRect        the map callback of /detectFaces on one annotation    *)
(*   SpecNormalizer  the map/filter/sort chain on one annotation list      *)
(*   Spec            the five handlers, NReq requests in flight at once,   *)
(*                   interleaved at their await points                     *)
(***************************************************************************)
EXTENDS Integers, Sequences, FiniteSets, TLC

VARIABLES face, mapped, annotations, faces, req, bucket, lastUpload, latestBoard

vars == <<face, mapped, annotations, faces, req, bucket, lastUpload, latestBoard>>

(***************************************************************************)
(* Bounds.                                                                 *)
(***************************************************************************)
RectMaxVerts == 3
RectMaxCoord == 0
ListMaxAnnots == 3
ListMaxCoord == 0
NReq == 2

SeqUpTo(S, n) == UNION {[1..k -> S] : k \in 0..n}

Range(s) == {s[i] : i \in 1..Len(s)}

(***************************************************************************)
(* JavaScript values that reach the handlers.  A vertex coordinate is a    *)
(* number, undefined (absent) or a value of another type (a string).       *)
(***************************************************************************)
\* A string is the sequence of its pieces: a piece is a run of characters
\* without white space, or one white-space character (Ws); a base64 string
\* is the sequence of its characters' codes.
Undefined == [t |-> "undefined"]
String(s) == [t |-> "string", s |-> s]
Number(n) == [t |-> "number", v |-> n]
NonNumber == String(<<"1">>)

typeof(c) == c.t

\* an entry of boundingPoly.vertices: an object with x and y, or null
Vertex(vx, vy) == [obj |-> TRUE, x |-> vx, y |-> vy]
NullVertex == [obj |-> FALSE]

\* a face annotation: boundingPoly may be absent, and so may its vertices
NoPoly == [poly |-> FALSE, hasVertices |-> FALSE, vertices |-> <<>>]
NoVertices == [poly |-> TRUE, hasVertices |-> FALSE, vertices |-> <<>>]
Poly(vs) == [poly |-> TRUE, hasVertices |-> TRUE, vertices |-> vs]

Coords(lo, hi) == {Undefined, NonNumber} \cup {Number(n) : n \in lo..hi}

Vertices(C) == {NullVertex} \cup {Vertex(vx, vy) : vx \in C, vy \in C}

Annotations(C, maxVerts) ==
    {NoPoly, NoVertices} \cup {Poly(vs) : vs \in SeqUpTo(Vertices(C), maxVerts)}

(***************************************************************************)
(* The map callback, the filter and the sort of /detectFaces.              *)
(***************************************************************************)
\* face.boundingPoly?.vertices || []
verts(f) == IF f.poly /\ f.hasVertices THEN f.vertices ELSE <<>>

\* v.x of a null entry raises a TypeError inside forEach
ForEachThrows(vs) == \E i \in 1..Len(vs) : ~vs[i].obj

RECURSIVE PushX(_)
PushX(vs) ==
    IF vs = <<>> THEN <<>>
    ELSE (IF typeof(Head(vs).x) = "number" THEN <<Head(vs).x.v>> ELSE <<>>)
         \o PushX(Tail(vs))

RECURSIVE PushY(_)
PushY(vs) ==
    IF vs = <<>> THEN <<>>
    ELSE (IF typeof(Head(vs).y) = "number" THEN <<Head(vs).y.v>> ELSE <<>>)
         \o PushY(Tail(vs))

RECURSIVE MathMin(_)
MathMin(s) ==
    IF Len(s) = 1 THEN s[1]
    ELSE LET m == MathMin(Tail(s)) IN IF s[1] < m THEN s[1] ELSE m

RECURSIVE MathMax(_)
MathMax(s) ==
    IF Len(s) = 1 THEN s[1]
    ELSE LET m == MathMax(Tail(s)) IN IF s[1] > m THEN s[1] ELSE m

Null == [null |-> TRUE]

Thrown == [threw |-> TRUE]

Returned(val) == [threw |-> FALSE, value |-> val]

RectangleBad(xs, ys) ==
    [x |-> MathMin(xs), y |-> MathMin(ys),
     w |-> MathMax(xs), h |-> MathMax(ys)]

Rectangle(xs, ys) ==
    LET minX == MathMin(xs)
        maxX == MathMax(xs)
        minY == MathMin(ys)
        maxY == MathMax(ys)
    IN [x |-> minX, y |-> minY, w |-> maxX - minX, h |-> maxY - minY]

\* the callback of annotations.map: a rectangle, null, or a TypeError
MapFace(f) ==
    LET vs == verts(f) IN
    IF ForEachThrows(vs) THEN Thrown
    ELSE LET xs == PushX(vs)
             ys == PushY(vs)
         IN IF Len(xs) = 0 \/ Len(ys) = 0 THEN Returned(Null)
            ELSE Returned(Rectangle(xs, ys))

\* .filter(Boolean): null is the only falsy value the callback returns
FilterBooleanBad(s) == [i \in 1..Len(s) |-> IF s[i] = Null THEN [x |-> 0, y |-> 0, w |-> 0, h |-> 0] ELSE s[i]]

FilterBoolean(s) == SelectSeq(s, LAMBDA e : e # Null)

\* the comparator of .sort
compare(a, b) == a.x - b.x

\* Array.prototype.sort is stable: an element goes after every element
\* already placed that does not compare greater than it
InsertUnstable(s, e) ==
    LET k == Cardinality({i \in 1..Len(s) : compare(s[i], e) < 0})
    IN SubSeq(s, 1, k) \o <<e>> \o SubSeq(s, k + 1, Len(s))

Insert(s, e) ==
    LET k == Cardinality({i \in 1..Len(s) : compare(s[i], e) <= 0})
    IN SubSeq(s, 1, k) \o <<e>> \o SubSeq(s, k + 1, Len(s))

RECURSIVE sort(_)
sort(s) ==
    IF s = <<>> THEN <<>>
    ELSE Insert(sort(SubSeq(s, 1, Len(s) - 1)), s[Len(s)])

\* annotations.map(...).filter(Boolean).sort(...): the faces list, or the
\* TypeError of the first callback that throws
Normalize(as) ==
    IF \E i \in 1..Len(as) : MapFace(as[i]).threw THEN Thrown
    ELSE Returned(sort(FilterBoolean([i \in 1..Len(as) |-> MapFace(as[i]).value])))

(***************************************************************************)
(* Requests, responses and the two collaborators.                          *)
(***************************************************************************)
Ws == " "

MENU_OBJECT == <<"menu_current.pdf">>
BOARDPASS_OBJECT == <<"boardpass_current.pdf">>
LEGACY_BOARDING_OBJECT == <<"boarding_current.pdf">>

ALLOWED_OBJECTS == {MENU_OBJECT, BOARDPASS_OBJECT, LEGACY_BOARDING_OBJECT}

\* !v for the values a request body carries
Falsy(v) ==
    \/ typeof(v) = "undefined"
    \/ typeof(v) = "string" /\ v.s = <<>>
    \/ typeof(v) = "number" /\ v.v = 0

RECURSIVE trimStart(_)
trimStart(s) ==
    IF s # <<>> /\ Head(s) = Ws THEN trimStart(Tail(s)) ELSE s

RECURSIVE trimEnd(_)
trimEnd(s) ==
    IF s # <<>> /\ s[Len(s)] = Ws THEN trimEnd(SubSeq(s, 1, Len(s) - 1)) ELSE s

trim(s) == trimEnd(trimStart(s))

\* Buffer.from(s, "base64"): the characters up to the first "=" (code 64),
\* four 6-bit characters giving three bytes, a rest of three giving two
\* bytes, a rest of two giving one
RECURSIVE Sextets(_)
Sextets(s) ==
    IF s = <<>> \/ Head(s) = 64 THEN <<>> ELSE <<Head(s)>> \o Sextets(Tail(s))

RECURSIVE Bytes(_)
Bytes(d) ==
    IF Len(d) < 2 THEN <<>>
    ELSE LET b1 == d[1] * 4 + d[2] \div 16 IN
         IF Len(d) = 2 THEN <<b1>>
         ELSE LET b2 == (d[2] % 16) * 16 + d[3] \div 4 IN
              IF Len(d) = 3 THEN <<b1, b2>>
              ELSE <<b1, b2, (d[3] % 4) * 64 + d[4]>>
                   \o Bytes(SubSeq(d, 5, Len(d)))

BufferFromBase64(s) == Bytes(Sextets(s))

\* "TWFu" and "TWE="
Payloads == {<<19, 22, 5, 46>>, <<19, 22, 4, 64>>}

NoBody == [has |-> FALSE]

DetectBodies ==
    {NoBody} \cup
    {[has |-> TRUE, imageBase64 |-> i] : i \in {Undefined, String(<<19, 22, 5, 46>>)}}

ObjectNames ==
    {Undefined, String(<<>>), Number(5),
     String(<<Ws, BOARDPASS_OBJECT[1], Ws>>),
     String(LEGACY_BOARDING_OBJECT),
     String(<<"evil.pdf">>)}

UploadBodies ==
    {NoBody} \cup
    {[has |-> TRUE, pdfBase64 |-> p, objectName |-> o] :
        p \in {Undefined} \cup {String(q) : q \in Payloads}, o \in ObjectNames}

\* req.body?.f
Field(body, f) == IF body.has THEN body[f] ELSE Undefined

\* the keys a storage call of the model can name
Keys == ALLOWED_OBJECTS \cup {<<>>, <<"evil.pdf">>, <<Ws, BOARDPASS_OBJECT[1], Ws>>}

NoBlob == [exists |-> FALSE]

Blob(bytes) == [exists |-> TRUE, bytes |-> bytes]

\* what visionClient.faceDetection resolves to, or its rejection
Rejected == [ok |-> FALSE]

Resolved(result) == [ok |-> TRUE, result |-> result]

NoFaceAnnotations == [hasFaceAnnotations |-> FALSE]

FaceAnnotations(as) == [hasFaceAnnotations |-> TRUE, faceAnnotations |-> as]

V(a, b) == Vertex(Number(a), Number(b))

ProviderLists ==
    { <<>>,
      <<Poly(<<V(1, 0), V(2, 3)>>), NoPoly, Poly(<<V(1, 1)>>), Poly(<<V(-1, 0), Vertex(Undefined, Number(2))>>)>>,
      <<Poly(<<Vertex(Number(0), NonNumber)>>), NoVertices>>,
      <<Poly(<<V(2, 2)>>), Poly(<<V(2, 1)>>), Poly(<<V(0, 5), V(3, -1)>>)>>,
      <<Poly(<<Vertex(NonNumber, Undefined)>>)>>,
      <<Poly(<<V(2, 2)>>)>>,
      <<Poly(<<V(0, 0), NullVertex>>)>> }

ProviderOutcomes ==
    {Rejected, Resolved(NoFaceAnnotations)} \cup {Resolved(FaceAnnotations(as)) : as \in ProviderLists}

\* res.status(s).json(b) and res.status(s).send(b)
Response(status, body) == [status |-> status, body |-> body]

(***************************************************************************)
(* Values of the variables a specification does not use.                   *)
(***************************************************************************)
Pending == [pending |-> TRUE]

Idle == [pc |-> "idle"]

NoKey == <<>>

(***************************************************************************)
(* SpecRect: the map callback applied to one annotation.                   *)
(***************************************************************************)
RectAnnotations == Annotations(Coords(-1, RectMaxCoord), RectMaxVerts)

\* The list operations see an annotation through the callback's result alone
\* (a rectangle, null or a TypeError): polygons of at most one vertex give
\* all three, with every x and y of the range.
ListAnnotations == Annotations(Coords(-1, ListMaxCoord) \ {NonNumber}, 1)

StoreIdle ==
    /\ req = [r \in 1..NReq |-> Idle]
    /\ bucket = [k \in Keys |-> NoBlob]
    /\ lastUpload = [k \in Keys |-> Undefined]
    /\ latestBoard = NoKey

InitRect ==
    /\ face \in RectAnnotations
    /\ mapped = Pending
    /\ annotations = <<>>
    /\ faces = Pending
    /\ StoreIdle

MapCallback ==
    /\ mapped = Pending
    /\ mapped' = MapFace(face)
    /\ UNCHANGED <<face, annotations, faces, req, bucket, lastUpload, latestBoard>>

SpecRect == InitRect /\ [][MapCallback]_vars

(***************************************************************************)
(* SpecNormalizer: map, filter and sort applied to one annotation list.    *)
(***************************************************************************)
InitNormalizer ==
    /\ annotations \in SeqUpTo(ListAnnotations, ListMaxAnnots)
    /\ faces = Pending
    /\ face = NoPoly
    /\ mapped = Pending
    /\ StoreIdle

MapFilterSort ==
    /\ faces = Pending
    /\ faces' = Normalize(annotations)
    /\ UNCHANGED <<face, mapped, annotations, req, bucket, lastUpload, latestBoard>>

SpecNormalizer == InitNormalizer /\ [][MapFilterSort]_vars

(***************************************************************************)
(* Spec: the handlers.  A request occupies one of NReq slots; a handler    *)
(* runs from the request to its first await (or to its response), and from *)
(* the completion of the awaited call to its response.  The completion of  *)
(* a storage call and the handler's continuation form one step: the        *)
(* continuation reads nothing but the call's result.                       *)
(***************************************************************************)
Slot(route, body) ==
    [pc |-> "run", route |-> route, body |-> body, calls |-> 0, file |-> NoKey,
     buffer |-> <<>>, outcome |-> "none", result |-> Pending, resps |-> <<>>]

Respond(s, status, body) ==
    [s EXCEPT !.pc = "done", !.resps = Append(@, Response(status, body))]

\* the handler calls a collaborator and awaits it
Await(s) == [s EXCEPT !.pc = "await", !.calls = @ + 1]

Free(r) == req[r].pc = "idle"

\* no response is waiting to be taken by its client
Quiet == \A r \in 1..NReq : req[r].pc # "done"

\* the client takes the response; the slot is free for the next request
Finish(r) ==
    /\ req[r].pc = "done"
    /\ req' = [req EXCEPT ![r] = Idle]
    /\ UNCHANGED <<face, mapped, annotations, faces, bucket, lastUpload, latestBoard>>

Awaiting(r, route) == req[r].pc = "await" /\ req[r].route = route

MissingImageBad(body) == ~body.has

MissingImage(body) == ~body.has \/ Falsy(body.imageBase64)

DetectFacesHandler(body) ==
    LET s == Slot("detectFaces", body) IN
    IF MissingImage(body)
    THEN Respond(s, 400, [error |-> "No imageBase64 provided"])
    ELSE Await(s)

DetectFaces(r) ==
    /\ Free(r)
    /\ \E body \in DetectBodies : req' = [req EXCEPT ![r] = DetectFacesHandler(body)]
    /\ UNCHANGED <<face, mapped, annotations, faces, bucket, lastUpload, latestBoard>>

DetectFacesCatch(s) == Respond(s, 500, [error |-> "Vision call failed"])

\* a module-level list shared by the handlers in place of the local one
faceAnnotationsShared(result) ==
    LET others == {r \in 1..NReq : req[r].pc = "done" /\ req[r].outcome = "ok"
                                   /\ req[r].route = "detectFaces"}
    IN IF others # {}
       THEN (LET o == req[CHOOSE r \in others : TRUE].result
             IN IF o.hasFaceAnnotations THEN o.faceAnnotations ELSE <<>>)
       ELSE IF result.hasFaceAnnotations THEN result.faceAnnotations ELSE <<>>

\* result.faceAnnotations || []
faceAnnotations(result) ==
    IF result.hasFaceAnnotations THEN result.faceAnnotations ELSE <<>>

DetectFacesContinue(s, out) ==
    IF ~out.ok THEN DetectFacesCatch([s EXCEPT !.outcome = "failed"])
    ELSE LET n == Normalize(faceAnnotations(out.result))
             t == [s EXCEPT !.outcome = "ok", !.result = out.result]
         IN IF n.threw THEN DetectFacesCatch(t)
            ELSE Respond(t, 200, [faces |-> n.value])

DetectFacesResume(r) ==
    /\ Awaiting(r, "detectFaces")
    /\ \E out \in ProviderOutcomes :
          req' = [req EXCEPT ![r] = DetectFacesContinue(req[r], out)]
    /\ UNCHANGED <<face, mapped, annotations, faces, bucket, lastUpload, latestBoard>>

AllowedAny(objectName) == TRUE

Allowed(objectName) == objectName \in ALLOWED_OBJECTS

UploadPdfDirectCatch(s) == Respond(s, 500, [error |-> "upload failed"])

UploadPdfDirectHandler(body) ==
    LET s == Slot("uploadPdfDirect", body)
        pdfBase64 == Field(body, "pdfBase64")
    IN IF Falsy(pdfBase64)
       THEN Respond(s, 400, [error |-> "No pdfBase64 provided"])
       ELSE LET o == IF Falsy(Field(body, "objectName"))
                     THEN String(MENU_OBJECT) ELSE Field(body, "objectName")
            IN IF typeof(o) # "string"
               THEN UploadPdfDirectCatch(s)
               ELSE LET objectName == trim(o.s) IN
                    IF ~Allowed(objectName)
                    THEN Respond(s, 400, [error |-> "Invalid objectName",
                                          allowed |-> ALLOWED_OBJECTS])
                    ELSE Await([s EXCEPT !.file = objectName,
                                         !.buffer = BufferFromBase64(pdfBase64.s)])

UploadPdfDirect(r) ==
    /\ Free(r)
    /\ \E body \in UploadBodies : req' = [req EXCEPT ![r] = UploadPdfDirectHandler(body)]
    /\ UNCHANGED <<face, mapped, annotations, faces, bucket, lastUpload, latestBoard>>

\* the name an upload is aimed at: the trimmed objectName, or the menu's
TargetName(body) ==
    IF Falsy(Field(body, "objectName")) THEN MENU_OBJECT
    ELSE trim(Field(body, "objectName").s)

UploadPdfDirectResume(r) ==
    /\ Awaiting(r, "uploadPdfDirect")
    /\ \E saved \in BOOLEAN :
          IF saved
          THEN /\ bucket' = [bucket EXCEPT ![req[r].file] = Blob(req[r].buffer)]
               /\ req' = [req EXCEPT ![r] =
                             Respond([req[r] EXCEPT !.outcome = "ok"], 200,
                                     [ok |-> TRUE, objectName |-> req[r].file])]
               /\ lastUpload' = [lastUpload EXCEPT ![TargetName(req[r].body)] =
                                    req[r].body.pdfBase64]
               /\ latestBoard' =
                     IF TargetName(req[r].body) \in {BOARDPASS_OBJECT, LEGACY_BOARDING_OBJECT}
                     THEN TargetName(req[r].body) ELSE latestBoard
          ELSE /\ req' = [req EXCEPT ![r] =
                             UploadPdfDirectCatch([req[r] EXCEPT !.outcome = "failed"])]
               /\ UNCHANGED <<bucket, lastUpload, latestBoard>>
    /\ UNCHANGED <<face, mapped, annotations, faces>>

\* file.download(): the blob's bytes, or a failure (always one when the
\* blob does not exist)
DownloadOutcomes(key) ==
    {Rejected} \cup (IF bucket[key].exists THEN {Resolved(bucket[key].bytes)} ELSE {})

MenuCurrentFileBad == BOARDPASS_OBJECT

MenuCurrentFile == MENU_OBJECT

BoardpassCurrentFile == BOARDPASS_OBJECT

BoardingCurrentFileLegacy == LEGACY_BOARDING_OBJECT

BoardingCurrentFile == BOARDPASS_OBJECT

Get(r, route, file) ==
    /\ Free(r)
    /\ req' = [req EXCEPT ![r] = Await([Slot(route, NoBody) EXCEPT !.file = file])]
    /\ UNCHANGED <<face, mapped, annotations, faces, bucket, lastUpload, latestBoard>>

\* no catch around the download: the rejection goes unanswered
GetContinueUncaught(s, out, unavailable) ==
    IF out.ok THEN Respond([s EXCEPT !.outcome = "ok"], 200, out.result)
    ELSE [s EXCEPT !.outcome = "failed", !.pc = "done"]

GetContinue(s, out, unavailable) ==
    IF out.ok THEN Respond([s EXCEPT !.outcome = "ok"], 200, out.result)
    ELSE Respond([s EXCEPT !.outcome = "failed"], 500, unavailable)

GetResume(r, route, unavailable) ==
    /\ Awaiting(r, route)
    /\ \E out \in DownloadOutcomes(req[r].file) :
          req' = [req EXCEPT ![r] = GetContinue(req[r], out, unavailable)]
    /\ UNCHANGED <<face, mapped, annotations, faces, bucket, lastUpload, latestBoard>>

MenuCurrent(r) == Get(r, "menu_current", MenuCurrentFile)

MenuCurrentResume(r) == GetResume(r, "menu_current", "menu not available")

BoardpassCurrent(r) == Get(r, "boardpass_current", BoardpassCurrentFile)

BoardpassCurrentResume(r) == GetResume(r, "boardpass_current", "boardpass not available")

BoardingCurrent(r) == Get(r, "boarding_current", BoardingCurrentFile)

BoardingCurrentResume(r) == GetResume(r, "boarding_current", "boarding pass not available")

Init ==
    /\ face = NoPoly
    /\ mapped = Pending
    /\ annotations = <<>>
    /\ faces = Pending
    /\ StoreIdle

\* A response is taken by its client in the step after it is sent: a sent
\* response takes part in no other step, so nothing is lost by it.
Next ==
    \E r \in 1..NReq :
        \/ Quiet /\ DetectFaces(r)
        \/ Quiet /\ DetectFacesResume(r)
        \/ Quiet /\ UploadPdfDirect(r)
        \/ Quiet /\ UploadPdfDirectResume(r)
        \/ Quiet /\ MenuCurrent(r)
        \/ Quiet /\ MenuCurrentResume(r)
        \/ Quiet /\ BoardpassCurrent(r)
        \/ Quiet /\ BoardpassCurrentResume(r)
        \/ Quiet /\ BoardingCurrent(r)
        \/ Quiet /\ BoardingCurrentResume(r)
        \/ Finish(r)

Spec == Init /\ [][Next]_vars

(***************************************************************************)
(* SpecDetect: /detectFaces requests only, NReq of them in flight; a       *)
(* response stays in its slot until its client takes it, so that the       *)
(* responses of several requests are there to be compared.                 *)
(***************************************************************************)
NextDetect ==
    \E r \in 1..NReq : DetectFaces(r) \/ DetectFacesResume(r) \/ Finish(r)

SpecDetect == Init /\ [][NextDetect]_vars

(***************************************************************************)
(* What the claims speak of, stated without the handlers' own operators.   *)
(***************************************************************************)
NumericX(f) ==
    {verts(f)[i].x.v : i \in {j \in 1..Len(verts(f)) :
                                 verts(f)[j].obj /\ verts(f)[j].x.t = "number"}}

NumericY(f) ==
    {verts(f)[i].y.v : i \in {j \in 1..Len(verts(f)) :
                                 verts(f)[j].obj /\ verts(f)[j].y.t = "number"}}

Degenerate(f) == NumericX(f) = {} \/ NumericY(f) = {}

Least(S) == CHOOSE m \in S : \A e \in S : m <= e

Greatest(S) == CHOOSE m \in S : \A e \in S : e <= m

BoundingBox(f) ==
    [x |-> Least(NumericX(f)), y |-> Least(NumericY(f)),
     w |-> Greatest(NumericX(f)) - Least(NumericX(f)),
     h |-> Greatest(NumericY(f)) - Least(NumericY(f))]

Kept(as) == {i \in 1..Len(as) : ~Degenerate(as[i])}

\* the place of annotation i among the kept ones, ordered by left edge and,
\* for equal left edges, by position in the provider's list
Rank(as, i) ==
    LET left == [j \in Kept(as) |-> Least(NumericX(as[j]))]
    IN 1 + Cardinality({j \in DOMAIN left :
                           \/ left[j] < left[i]
                           \/ left[j] = left[i] /\ j < i})

Sent(r) == req[r].resps[1]

Done(r, route) == req[r].pc = "done" /\ req[r].route = route

\* slot r takes a request in this step
Taken(r) == req[r].pc = "idle" /\ req'[r].pc # "idle"

\* slot r answers in this step a request it was awaiting a call for
Answered(r, route) == Awaiting(r, route) /\ req'[r].pc = "done"

Lacks(body, f) == ~body.has \/ body[f].t = "undefined"

ReturnedList(r) ==
    IF req[r].result.hasFaceAnnotations THEN req[r].result.faceAnnotations ELSE <<>>

(***************************************************************************)
(* C1: an annotation with a numeric x and a numeric y among its vertices   *)
(* is mapped to the rectangle {x: minX, y: minY, w: maxX - minX,           *)
(* h: maxY - minY}, the minima and maxima taken over the numeric values of *)
(* each axis alone, negative values kept; so w >= 0 and h >= 0.            *)
(***************************************************************************)
C1_Rectangle ==
    (mapped # Pending /\ ~mapped.threw /\ ~Degenerate(face)) =>
        /\ DOMAIN mapped.value = {"x", "y", "w", "h"}
        /\ mapped.value.x \in NumericX(face)
        /\ \A e \in NumericX(face) : mapped.value.x <= e
        /\ mapped.value.x + mapped.value.w \in NumericX(face)
        /\ \A e \in NumericX(face) : e <= mapped.value.x + mapped.value.w
        /\ mapped.value.y \in NumericY(face)
        /\ \A e \in NumericY(face) : mapped.value.y <= e
        /\ mapped.value.y + mapped.value.h \in NumericY(face)
        /\ \A e \in NumericY(face) : e <= mapped.value.y + mapped.value.h
        /\ mapped.value.w >= 0
        /\ mapped.value.h >= 0

\* a rectangle with a negative left edge and a positive width, from a
\* polygon one of whose vertices gives an x and no y
C1_Witness ==
    /\ mapped # Pending
    /\ ~mapped.threw
    /\ mapped.value # Null
    /\ mapped.value.x < 0
    /\ mapped.value.w > 0
    /\ mapped.value.h > 0
    /\ \E i \in 1..Len(face.vertices) :
          /\ face.vertices[i].x.t = "number"
          /\ face.vertices[i].y.t # "number"

(***************************************************************************)
(* C2: a degenerate annotation (no numeric x among its vertices, or no     *)
(* numeric y; no polygon; no vertices) gives no rectangle and every other  *)
(* annotation gives one: the faces list is as long as the number of        *)
(* non-degenerate annotations, never longer than the input, and shorter    *)
(* when an annotation is degenerate.                                       *)
(***************************************************************************)
C2_Length ==
    (faces # Pending /\ ~faces.threw) =>
        /\ Len(faces.value) = Cardinality(Kept(annotations))
        /\ Len(faces.value) <= Len(annotations)
        /\ (\E i \in 1..Len(annotations) : Degenerate(annotations[i]))
              => Len(faces.value) < Len(annotations)
        /\ \A k \in 1..Len(faces.value) :
              \E i \in Kept(annotations) : faces.value[k] = BoundingBox(annotations[i])

\* a list with a degenerate annotation between two that are kept
C2_Witness ==
    /\ faces # Pending
    /\ ~faces.threw
    /\ Len(annotations) = 3
    /\ Len(faces.value) = 2
    /\ Degenerate(annotations[2])
    /\ annotations[2].poly

(***************************************************************************)
(* C3: the faces list is sorted by x, non-decreasing, and rectangles with  *)
(* equal x keep the order of their annotations in the provider's list.     *)
(***************************************************************************)
C3_StableSort ==
    (faces # Pending /\ ~faces.threw) =>
        /\ \A a, b \in 1..Len(faces.value) :
              a < b => faces.value[a].x <= faces.value[b].x
        /\ \A i \in Kept(annotations) :
              /\ Rank(annotations, i) <= Len(faces.value)
              /\ faces.value[Rank(annotations, i)] = BoundingBox(annotations[i])

\* the last annotation has the least x and goes first; the two before it
\* share their x, differ in y and keep their order
C3_Witness ==
    /\ faces # Pending
    /\ ~faces.threw
    /\ Len(faces.value) = 3
    /\ faces.value[1].x < faces.value[2].x
    /\ faces.value[2].x = faces.value[3].x
    /\ faces.value[2].y > faces.value[3].y
    /\ faces.value[1] = BoundingBox(annotations[3])
    /\ faces.value[2] = BoundingBox(annotations[1])

(***************************************************************************)
(* C4: a /detectFaces request without body.imageBase64 and an              *)
(* /uploadPdfDirect request without body.pdfBase64 are answered 400 with   *)
(* an error body at once: no collaborator is called and the bucket is left *)
(* as it was.                                                              *)
(***************************************************************************)
C4_Rejected(r) ==
    /\ req'[r].pc = "done"
    /\ req'[r].calls = 0
    /\ Len(req'[r].resps) = 1
    /\ req'[r].resps[1].status = 400
    /\ "error" \in DOMAIN req'[r].resps[1].body
    /\ bucket' = bucket

C4_MissingInput ==
    [][\A r \in 1..NReq :
          /\ (Taken(r) /\ req'[r].route = "detectFaces"
                /\ Lacks(req'[r].body, "imageBase64")) => C4_Rejected(r)
          /\ (Taken(r) /\ req'[r].route = "uploadPdfDirect"
                /\ Lacks(req'[r].body, "pdfBase64")) => C4_Rejected(r)]_vars

\* an upload without pdfBase64 that names an allowed object is rejected
\* while the bucket holds a blob
C4_Witness ==
    \E r \in 1..NReq :
        /\ Done(r, "uploadPdfDirect")
        /\ req[r].body.has
        /\ req[r].body.pdfBase64 = Undefined
        /\ req[r].body.objectName = String(LEGACY_BOARDING_OBJECT)
        /\ Sent(r).status = 400
        /\ bucket[BOARDPASS_OBJECT].exists

(***************************************************************************)
(* C5: whatever the annotations of a successful detection call hold        *)
(* (no boundingPoly, no vertices, coordinates absent or not numbers, null  *)
(* vertex entries), /detectFaces answers 200 with a faces list.            *)
(***************************************************************************)
C5_NeverFails ==
    \A r \in 1..NReq :
        (Done(r, "detectFaces") /\ req[r].outcome = "ok") =>
            /\ Sent(r).status = 200
            /\ "faces" \in DOMAIN Sent(r).body

(***************************************************************************)
(* C6: a failed collaborator call (faceDetection, file.save,               *)
(* file.download, a missing blob included) is answered with the handler's  *)
(* generic 500 response; a request gets one response and its collaborator  *)
(* is called at most once.                                                 *)
(***************************************************************************)
Generic500(route) ==
    CASE route = "detectFaces" -> [error |-> "Vision call failed"]
      [] route = "uploadPdfDirect" -> [error |-> "upload failed"]
      [] route = "menu_current" -> "menu not available"
      [] route = "boardpass_current" -> "boardpass not available"
      [] route = "boarding_current" -> "boarding pass not available"

C6_CollaboratorFailure ==
    \A r \in 1..NReq :
        req[r].pc # "idle" =>
            /\ req[r].calls <= 1
            /\ Len(req[r].resps) <= 1
            /\ req[r].pc = "done" => Len(req[r].resps) = 1
            /\ req[r].pc = "await" => req[r].resps = <<>> /\ req[r].calls = 1
            /\ req[r].outcome = "failed" =>
                  /\ req[r].resps = <<Response(500, Generic500(req[r].route))>>
                  /\ req[r].calls = 1

\* /boarding_current fails on a blob that is not there
C6_Witness ==
    \E r \in 1..NReq :
        /\ Done(r, "boarding_current")
        /\ req[r].outcome = "failed"
        /\ ~bucket[req[r].file].exists
        /\ Sent(r).status = 500

UploadedBytes(k) == BufferFromBase64(lastUpload[k].s)

C8_Verbatim ==
    [][/\ \A r \in 1..NReq :
             /\ (Answered(r, "menu_current") /\ req'[r].resps[1].status = 200) =>
                   /\ lastUpload[MENU_OBJECT] # Undefined
                   /\ req'[r].resps[1].body = UploadedBytes(MENU_OBJECT)
             /\ (Answered(r, "boardpass_current") /\ req'[r].resps[1].status = 200) =>
                   /\ lastUpload[BOARDPASS_OBJECT] # Undefined
                   /\ req'[r].resps[1].body = UploadedBytes(BOARDPASS_OBJECT)
       /\ \A k \in Keys :
             bucket'[k] # bucket[k] =>
                \E r \in 1..NReq :
                    /\ Answered(r, "uploadPdfDirect")
                    /\ req'[r].resps[1].status = 200
                    /\ TargetName(req[r].body) = k
                    /\ bucket'[k] = Blob(BufferFromBase64(req[r].body.pdfBase64.s))]_vars

\* the menu is returned while the boardpass blob holds other bytes
C8_Witness ==
    \E r \in 1..NReq :
        /\ Done(r, "menu_current")
        /\ Sent(r).status = 200
        /\ Sent(r).body = <<77, 97>>
        /\ bucket[BOARDPASS_OBJECT] = Blob(<<77, 97, 110>>)

(***************************************************************************)
(* C9, as stated: GET /boardpass_current and GET /boarding_current return  *)
(* the bytes of the latest upload made under boarding_current.pdf or       *)
(* boardpass_current.pdf, whichever came last.                             *)
(***************************************************************************)
C9_SameBlob ==
    [][\A r \in 1..NReq :
          ((Answered(r, "boardpass_current") \/ Answered(r, "boarding_current"))
              /\ req'[r].resps[1].status = 200) =>
                 req'[r].resps[1].body = UploadedBytes(latestBoard)]_vars

(***************************************************************************)
(* C9, amended: GET /boardpass_current and GET /boarding_current both      *)
(* return the bytes of the latest upload made under boardpass_current.pdf  *)
(* (so the same bytes in the same state); an upload made under             *)
(* boarding_current.pdf is kept under that name, which no endpoint reads,  *)
(* and changes nothing of what the two return.                             *)
(***************************************************************************)
C9_BoardpassOnly ==
    [][\A r \in 1..NReq :
          /\ ((Answered(r, "boardpass_current") \/ Answered(r, "boarding_current"))
                 /\ req'[r].resps[1].status = 200) =>
                    /\ lastUpload[BOARDPASS_OBJECT] # Undefined
                    /\ req'[r].resps[1].body = UploadedBytes(BOARDPASS_OBJECT)
          /\ (Answered(r, "uploadPdfDirect")
                 /\ TargetName(req[r].body) = LEGACY_BOARDING_OBJECT) =>
                    /\ bucket'[BOARDPASS_OBJECT] = bucket[BOARDPASS_OBJECT]
                    /\ req'[r].resps[1].status = 200 =>
                          bucket'[LEGACY_BOARDING_OBJECT] = Blob(req[r].buffer)]_vars

\* /boarding_current returns the boardpass upload after a later, different
\* upload under the legacy name
C9_Witness ==
    \E r \in 1..NReq :
        /\ Done(r, "boarding_current")
        /\ Sent(r).status = 200
        /\ latestBoard = LEGACY_BOARDING_OBJECT
        /\ lastUpload[BOARDPASS_OBJECT] # Undefined
        /\ lastUpload[LEGACY_BOARDING_OBJECT] # lastUpload[BOARDPASS_OBJECT]
        /\ Sent(r).body = UploadedBytes(BOARDPASS_OBJECT)

(***************************************************************************)
(* C10: with /detectFaces requests interleaved at their awaits, the        *)
(* response of a request depends on the annotation list returned for that  *)
(* request alone: equal lists get equal responses, and every rectangle of  *)
(* a response is the bounding box of an annotation of the request's own    *)
(* list.                                                                   *)
(***************************************************************************)
C10_NoInterference ==
    \A r1, r2 \in 1..NReq :
        (/\ Done(r1, "detectFaces") /\ req[r1].outcome = "ok"
         /\ Done(r2, "detectFaces") /\ req[r2].outcome = "ok") =>
            /\ ReturnedList(r1) = ReturnedList(r2) => req[r1].resps = req[r2].resps
            /\ Sent(r1).status = 200 =>
                  \A k \in 1..Len(Sent(r1).body.faces) :
                      \E i \in Kept(ReturnedList(r1)) :
                          Sent(r1).body.faces[k] = BoundingBox(ReturnedList(r1)[i])

\* two requests answered side by side, with different lists and faces
C10_Witness ==
    \E r1, r2 \in 1..NReq :
        /\ Done(r1, "detectFaces") /\ req[r1].outcome = "ok"
        /\ Done(r2, "detectFaces") /\ req[r2].outcome = "ok"
        /\ Sent(r1).status = 200
        /\ Sent(r2).status = 200
        /\ Len(Sent(r1).body.faces) = 3
        /\ Len(Sent(r2).body.faces) = 1

====
